---------------------------- MODULE Spec2Model ----------------------------
(***************************************************************************)
(* Model of the valorust client library (src/src/lib.rs):                  *)
(*   - the EpisodeAndAct codec (to_value / Serialize / Deserialize),       *)
(*   - the untagged ApiResponse<T> envelope decoding,                      *)
(*   - ValorantApiType::to_url and ValorantClient::request.                *)
(*                                                                         *)
(* Characters are modelled by their Unicode code points (Rust `char`),     *)
(* strings that are inspected character by character are sequences of      *)
(* code points, and JSON values are tagged tuples:                         *)
(*   <<"absent">>  <<"null">>  <<"num", n>>  <<"str", chars>>              *)
(*   <<"arr", seq>>  <<"obj", record>>                                     *)
(***************************************************************************)
EXTENDS Integers, Sequences, FiniteSets, TLC

VARIABLES
    pc,        \* position of the modelled call
    text,      \* codec: the characters of the JSON string being deserialized
    token,     \* codec: Option<EpisodeAndAct>: the value being serialized
    result,    \* codec: the Result of EpisodeAndAct::deserialize
    payload,   \* envelope: the type parameter T of ApiResponse<T>
    body,      \* envelope / request: the JSON object of the response body
    envelope,  \* envelope: the Result of decoding ApiResponse<T>
    client,    \* request: the ValorantClient (its api_end_point)
    api_type,  \* request: the ValorantApiType passed to request
    url,       \* request: the URL handed to reqwest::get
    http,      \* request: what the transport returned
    response   \* request: the Result returned to the caller

vars == <<pc, text, token, result, payload, body, envelope, client,
          api_type, url, http, response>>

---------------------------------------------------------------------------
(* Bounds of the model *)

\* longest text over the small alphabet
MaxLen == 5
\* largest episode / act of a token built directly from numbers
MaxField == 10
\* longest `errors` array of a body
MaxErrors == 2

---------------------------------------------------------------------------
(* Characters *)

Char_e == 101
Char_a == 97
Char_0 == 48
Char_9 == 57
\* number of chars the slice pattern [e, episode_number, a, act_number] binds
TokenLen == 4

\* 's' 'd' 'f' '-'
OtherChars == {115, 100, 102, 45}
\* superscript two, vulgar fraction one half (category No), Arabic-Indic
\* digit three (category Nd): numeric in Unicode, not ASCII digits
NonAsciiNumeric == {178, 189, 1635}

AsciiDigits == Char_0..Char_9

Alphabet == {Char_e, Char_a} \cup OtherChars \cup AsciiDigits \cup NonAsciiNumeric

\* 'e' 'a' '5' '1' '-'
SmallAlphabet == {Char_e, Char_a, 53, 49, 45}

\* char::is_numeric: ASCII '0'..'9', or a non-ASCII char of general category
\* Nd, Nl or No
is_numeric(c) ==
    \/ c \in Char_0..Char_9
    \/ c > 127 /\ c \in NonAsciiNumeric

\* u32::from(char): the code point
char_into_u32(c) == c

\* Display for u32: the decimal digits, no padding
RECURSIVE Decimal(_)
Decimal(n) ==
    IF n < 10 THEN <<Char_0 + n>>
    ELSE Decimal(n \div 10) \o <<Char_0 + (n % 10)>>

---------------------------------------------------------------------------
(* Results *)

Ok(v) == [ok |-> TRUE, value |-> v]
Err(m) == [ok |-> FALSE, msg |-> m]

\* Option<_>: None is the empty sequence, Some(v) the sequence of v alone
None == <<>>
Some(v) == <<v>>

InvalidLength == <<"Invalid length">>
InvalidFormat(string) == <<"Invalid format, format recieved: ", string>>
InvalidType == <<"invalid type: expected a string">>

---------------------------------------------------------------------------
(* EpisodeAndAct codec *)

\* EpisodeAndAct::to_value: format!("e{}a{}", self.episode, self.act)
to_value(t) ==
    <<Char_e>> \o Decimal(t.episode) \o <<Char_a>> \o Decimal(t.act)

\* impl Serialize: the same text, as a JSON string
serialize(t) ==
    <<"str", <<Char_e>> \o Decimal(t.episode) \o <<Char_a>> \o Decimal(t.act)>>

\* mutant: the length check lets longer texts through and reads a prefix
deserialize_prefix(j) ==
    IF j[1] # "str" THEN Err(InvalidType)
    ELSE LET string == j[2] IN
         IF Len(string) < TokenLen THEN Err(InvalidLength)
         ELSE IF string[1] # Char_e \/ string[3] # Char_a
              THEN Err(InvalidFormat(string))
         ELSE IF ~is_numeric(string[2]) \/ ~is_numeric(string[4])
              THEN Err(InvalidFormat(string))
         ELSE Ok([episode |-> char_into_u32(string[2]),
                  act |-> char_into_u32(string[4])])

\* mutant: the marker check uses && where the code uses ||
deserialize_and(j) ==
    IF j[1] # "str" THEN Err(InvalidType)
    ELSE LET string == j[2] IN
         IF Len(string) # TokenLen THEN Err(InvalidLength)
         ELSE IF string[1] # Char_e /\ string[3] # Char_a
              THEN Err(InvalidFormat(string))
         ELSE IF ~is_numeric(string[2]) \/ ~is_numeric(string[4])
              THEN Err(InvalidFormat(string))
         ELSE Ok([episode |-> char_into_u32(string[2]),
                  act |-> char_into_u32(string[4])])

\* impl Deserialize for EpisodeAndAct
deserialize(j) ==
    IF j[1] # "str" THEN Err(InvalidType)
    ELSE LET string == j[2]
             chars == string
         IN
         IF Len(chars) # TokenLen THEN Err(InvalidLength)
         ELSE LET e == chars[1]
                  episode_number == chars[2]
                  a == chars[3]
                  act_number == chars[4]
              IN
              IF e # Char_e \/ a # Char_a
              THEN Err(InvalidFormat(string))
              ELSE IF ~is_numeric(episode_number) \/ ~is_numeric(act_number)
              THEN Err(InvalidFormat(string))
              ELSE Ok([episode |-> char_into_u32(episode_number),
                       act |-> char_into_u32(act_number)])

---------------------------------------------------------------------------
(* Inputs of the codec *)

\* every text of exactly four characters over the alphabet
FourCharTexts == [1..TokenLen -> Alphabet]

\* every text of up to MaxLen characters over the small alphabet
ShortTexts == UNION {[1..n -> SmallAlphabet] : n \in 0..MaxLen}

Texts == FourCharTexts \cup ShortTexts

\* values of the struct EpisodeAndAct { episode: u32, act: u32 }
Tokens == [episode : 0..MaxField, act : 0..MaxField]

Unused == <<"unused">>

InitCodec ==
    /\ \/ /\ pc = "deserialize"
          /\ text \in Texts
          /\ token = None
       \/ /\ pc = "serialize"
          /\ text = <<>>
          /\ token \in {Some(t) : t \in Tokens}
    /\ result = None
    /\ payload = Unused
    /\ body = Unused
    /\ envelope = Unused
    /\ client = Unused
    /\ api_type = Unused
    /\ url = Unused
    /\ http = Unused
    /\ response = Unused

\* token.to_value(): the text, then parsed as a JSON string
ToValue ==
    /\ pc = "serialize"
    /\ text' = to_value(token[1])
    /\ result' = None
    /\ pc' = "deserialize"
    /\ UNCHANGED <<token, payload, body, envelope, client, api_type, url, http, response>>

\* serde_json::to_string(&token): the text of the JSON string
Serialize ==
    /\ pc = "serialize"
    /\ text' = serialize(token[1])[2]
    /\ result' = None
    /\ pc' = "deserialize"
    /\ UNCHANGED <<token, payload, body, envelope, client, api_type, url, http, response>>

\* serde_json::from_str::<EpisodeAndAct>: the JSON string `text`
Deserialize ==
    /\ pc = "deserialize"
    /\ result' = deserialize(<<"str", text>>)
    /\ pc' = "done"
    /\ UNCHANGED <<text, token, payload, body, envelope, client, api_type, url, http,
                   response>>

\* a token obtained by parsing is serialized again
Reserialize ==
    /\ pc = "done"
    /\ result.ok
    /\ token = None
    /\ token' = Some(result.value)
    /\ pc' = "serialize"
    /\ UNCHANGED <<text, result, payload, body, envelope, client, api_type, url, http,
                   response>>

NextCodec == ToValue \/ Serialize \/ Deserialize \/ Reserialize

SpecCodec == InitCodec /\ [][NextCodec]_vars

---------------------------------------------------------------------------
(* ApiResponse<T> envelope *)

Absent == <<"absent">>
Null == <<"null">>
Num(n) == <<"num", n>>
Str(s) == <<"str", s>>
Arr(q) == <<"arr", q>>
Obj(o) == <<"obj", o>>

NoVariant == <<"data did not match any variant of untagged enum ApiResponse">>
BadField == <<"missing field or invalid type">>

\* u32: a non-negative JSON number
deserialize_u32(j) ==
    IF j[1] = "num" /\ j[2] >= 0 THEN Ok(j[2]) ELSE Err(BadField)

\* String: a JSON string
deserialize_String(j) ==
    IF j[1] = "str" THEN Ok(j[2]) ELSE Err(BadField)

\* derived Deserialize of struct ApiError { message, code, details }
ApiError_deserialize(j) ==
    IF j[1] # "obj" THEN Err(BadField)
    ELSE LET message == deserialize_String(j[2].message)
             code == deserialize_u32(j[2].code)
             details == deserialize_String(j[2].details)
         IN
         IF message.ok /\ code.ok /\ details.ok
         THEN Ok([message |-> message.value, code |-> code.value,
                  details |-> details.value])
         ELSE Err(BadField)

\* Vec<ApiError>: a JSON array, element by element, in order
Vec_ApiError_deserialize(j) ==
    IF j[1] # "arr" THEN Err(BadField)
    ELSE LET items == [i \in 1..Len(j[2]) |-> ApiError_deserialize(j[2][i])]
         IN
         IF \A i \in 1..Len(j[2]) : items[i].ok
         THEN Ok([i \in 1..Len(j[2]) |-> items[i].value])
         ELSE Err(BadField)

\* derived Deserialize of MMRData: the fields other than the season are
\* summarised by `rest`, the struct whose fields the object carries;
\* highest_rank.season is decoded by EpisodeAndAct's Deserialize
MMRData_deserialize(j) ==
    IF j[1] # "obj" THEN Err(BadField)
    ELSE IF j[2].rest # "MMRData" THEN Err(BadField)
    ELSE LET season == deserialize(j[2].season) IN
         IF season.ok
         THEN Ok([type |-> "MMRData", season |-> season.value])
         ELSE season

\* derived Deserialize of AccountData: no season field, unknown fields ignored
AccountData_deserialize(j) ==
    IF j[1] # "obj" THEN Err(BadField)
    ELSE IF j[2].rest # "AccountData" THEN Err(BadField)
    ELSE Ok([type |-> "AccountData"])

\* T::deserialize for the two implementors of ValorantAPIData
T_deserialize(T, j) ==
    IF T = "MMRData" THEN MMRData_deserialize(j) ELSE AccountData_deserialize(j)

Success(status, data) == [variant |-> "Success", status |-> status, data |-> data]
Failure(status, errors) == [variant |-> "Failure", status |-> status, errors |-> errors]

\* mutant: a missing `errors` defaults to the empty Vec
ApiResponse_default_errors(T, j) ==
    IF j[1] # "obj" THEN Err(NoVariant)
    ELSE LET status == deserialize_u32(j[2].status)
             data == T_deserialize(T, j[2].data)
             errors == IF j[2].errors = Absent THEN Ok(<<>>)
                       ELSE Vec_ApiError_deserialize(j[2].errors)
         IN
         IF status.ok /\ data.ok THEN Ok(Success(status.value, data.value))
         ELSE IF status.ok /\ errors.ok
         THEN Ok(Failure(status.value, errors.value))
         ELSE Err(NoVariant)

\* mutant: Success denies unknown fields, so a present `errors` rejects it
ApiResponse_deny_unknown(T, j) ==
    IF j[1] # "obj" THEN Err(NoVariant)
    ELSE LET status == deserialize_u32(j[2].status)
             data == T_deserialize(T, j[2].data)
             errors == Vec_ApiError_deserialize(j[2].errors)
         IN
         IF status.ok /\ data.ok /\ j[2].errors = Absent
         THEN Ok(Success(status.value, data.value))
         ELSE IF status.ok /\ errors.ok
         THEN Ok(Failure(status.value, errors.value))
         ELSE Err(NoVariant)

\* derived Deserialize of the untagged enum ApiResponse<T>: the variants are
\* tried in declaration order, Success { status, data } first, then
\* Failure { status, errors }; fields a variant does not name are ignored
ApiResponse_deserialize(T, j) ==
    IF j[1] # "obj" THEN Err(NoVariant)
    ELSE LET status == deserialize_u32(j[2].status)
             data == T_deserialize(T, j[2].data)
             errors == Vec_ApiError_deserialize(j[2].errors)
         IN
         IF status.ok /\ data.ok THEN Ok(Success(status.value, data.value))
         ELSE IF status.ok /\ errors.ok
         THEN Ok(Failure(status.value, errors.value))
         ELSE Err(NoVariant)

---------------------------------------------------------------------------
(* Inputs of the envelope *)

\* "e5a3", "e5a5"
Text_e5a3 == <<101, 53, 97, 51>>
Text_e5a5 == <<101, 53, 97, 53>>

PayloadTypes == {"MMRData", "AccountData"}

StatusValues == {Absent, Num(200), Num(404), Str("200")}

SeasonValues == {Str(Text_e5a3), Str(Text_e5a5), Str(<<115, 100, 102, 97>>), Num(5)}

DataValues ==
    {Absent, Null}
    \cup {Obj([rest |-> r, season |-> x]) :
            r \in PayloadTypes \cup {"other"}, x \in SeasonValues}

NotFound == Obj([message |-> Str("Not found"), code |-> Num(0), details |-> Str("null")])
RateLimited == Obj([message |-> Str("Rate limited"), code |-> Num(1), details |-> Str("retry")])
\* `details` is JSON null, not the text "null"
NullDetails == Obj([message |-> Str("Not found"), code |-> Num(0), details |-> Null])

ErrorItems == {NotFound, RateLimited, NullDetails}

ErrorsValues ==
    {Absent, Null}
    \cup {Arr(q) : q \in UNION {[1..n -> ErrorItems] : n \in 0..MaxErrors}}

Bodies ==
    {Obj([status |-> st, data |-> d, errors |-> e]) :
        st \in StatusValues, d \in DataValues, e \in ErrorsValues}
    \cup {Arr(<<>>)}

InitEnvelope ==
    /\ pc = "decode"
    /\ payload \in PayloadTypes
    /\ body \in Bodies
    /\ envelope = None
    /\ text = Unused
    /\ token = Unused
    /\ result = Unused
    /\ client = Unused
    /\ api_type = Unused
    /\ url = Unused
    /\ http = Unused
    /\ response = Unused

\* serde_json::from_str::<ApiResponse<T>>(body)
Decode ==
    /\ pc = "decode"
    /\ envelope' = ApiResponse_deserialize(payload, body)
    /\ pc' = "decoded"
    /\ UNCHANGED <<text, token, result, payload, body, client, api_type, url, http,
                   response>>

NextEnvelope == Decode

SpecEnvelope == InitEnvelope /\ [][NextEnvelope]_vars

---------------------------------------------------------------------------
(* ValorantClient and ValorantApiType *)

\* AccountRegion::to_value
AccountRegion_to_value(region) ==
    CASE region = "EU" -> "eu"
      [] region = "NA" -> "na"
      [] region = "KR" -> "kr"
      [] region = "AS" -> "as"

\* impl Default for ValorantClient
ValorantClient_default == [api_end_point |-> "https://api.henrikdev.xyz/valorant"]

\* ValorantClient::new
ValorantClient_new == ValorantClient_default

\* ValorantClient::change_api_endpoint
change_api_endpoint(self, endpoint) == [self EXCEPT !.api_end_point = endpoint]

\* ValorantApiType::to_url: the pieces format! writes, in order; the MMRData
\* arm binds `filter` and does not use it
to_url(self) ==
    IF self.variant = "MMRData"
    THEN <<"v2/mmr/", AccountRegion_to_value(self.region), "/", self.name,
           "/", self.tag>>
    ELSE <<"v1/account/", self.name, "/", self.tag>>

\* format!("{}/{}", self.api_end_point, api_type.to_url())
request_url(self, t) == <<self.api_end_point, "/">> \o to_url(t)

TransportError == <<"error sending request">>
DecodeError == <<"error decoding response body">>
StatusError == <<"HTTP status client error or server error">>

\* mutant: the response goes through error_for_status() before json()
json_error_for_status(T, resp) ==
    IF resp.status \notin 200..299 THEN Err(StatusError)
    ELSE IF resp.body[1] = "garbage" THEN Err(DecodeError)
    ELSE LET r == ApiResponse_deserialize(T, resp.body) IN
         IF r.ok THEN r ELSE Err(DecodeError)

\* Response::json::<ApiResponse<T>>: the body is parsed whatever the HTTP
\* status of the response is; a body that is not JSON, or that does not
\* decode, is a reqwest decode error
json(T, resp) ==
    IF resp.body[1] = "garbage" THEN Err(DecodeError)
    ELSE LET r == ApiResponse_deserialize(T, resp.body) IN
         IF r.ok THEN r ELSE Err(DecodeError)

---------------------------------------------------------------------------
(* Inputs of a request *)

Regions == {"EU", "NA", "KR", "AS"}
Names == {"NitroSniper"}
Tags == {"NERD", "ana"}
Endpoints == {"http://localhost:8080"}

\* Option<EpisodeAndAct>: no filter, e5a1, e5a3
Filters == {None, Some([episode |-> 5, act |-> 1]), Some([episode |-> 5, act |-> 3])}

ApiTypes ==
    [variant : {"MMRData"}, region : Regions, name : Names, tag : Tags,
     filter : Filters]
    \cup [variant : {"AccountData"}, name : Names, tag : Tags]

HttpStatuses == {200, 404, 500}

\* a body that is not JSON at all
Garbage == <<"garbage">>

\* the bodies the server may send: any JSON body, or something else
ResponseBodies == Bodies \cup {Garbage}

InitRequest ==
    /\ pc = "client"
    /\ client = ValorantClient_new
    /\ api_type \in ApiTypes
    /\ payload = api_type.variant
    /\ url = None
    /\ http = None
    /\ response = None
    /\ body = Unused
    /\ envelope = Unused
    /\ text = Unused
    /\ token = Unused
    /\ result = Unused

\* client.change_api_endpoint(endpoint)
ChangeApiEndpoint ==
    /\ pc = "client"
    /\ \E endpoint \in Endpoints :
           client' = change_api_endpoint(client, endpoint)
    /\ UNCHANGED <<pc, text, token, result, payload, body, envelope, api_type,
                   url, http, response>>

\* request: the URL is formatted and the GET is issued
RequestGet ==
    /\ pc = "client"
    /\ url' = request_url(client, api_type)
    /\ pc' = "get"
    /\ UNCHANGED <<text, token, result, payload, body, envelope, client,
                   api_type, http, response>>

\* request: reqwest::get(..).await? fails, and `?` returns the error
GetFails ==
    /\ pc = "get"
    /\ http' = Err(TransportError)
    /\ response' = Err(TransportError)
    /\ pc' = "returned"
    /\ UNCHANGED <<text, token, result, payload, body, envelope, client,
                   api_type, url>>

\* request: reqwest::get(..).await? yields a response, of any HTTP status,
\* and .json().await decodes its body
GetResponds ==
    /\ pc = "get"
    /\ \E status \in HttpStatuses, b \in ResponseBodies :
           /\ http' = Ok([status |-> status, body |-> b])
           /\ response' = json(payload, [status |-> status, body |-> b])
    /\ pc' = "returned"
    /\ UNCHANGED <<text, token, result, payload, body, envelope, client,
                   api_type, url>>

NextRequest == ChangeApiEndpoint \/ RequestGet \/ GetFails \/ GetResponds

SpecRequest == InitRequest /\ [][NextRequest]_vars

---------------------------------------------------------------------------
(* Properties of the codec, checked under SpecCodec *)

\* the numeric value of a decimal digit character
DigitValue(c) == c - Char_0

\* 'e<d1>a<d2>' with d1, d2 ASCII decimal digits
WellFormed(s) ==
    /\ Len(s) = TokenLen
    /\ s[1] = Char_e
    /\ s[3] = Char_a
    /\ s[2] \in AsciiDigits
    /\ s[4] \in AsciiDigits

\* a valid season token: episode 0..9, act 1, 2 or 3
ValidToken(t) == t.episode \in 0..9 /\ t.act \in {1, 2, 3}

\* "e5a-1", "sdfa"
Text_e5a_1 == <<101, 53, 97, 45, 49>>
Text_sdfa == <<115, 100, 102, 97>>

\* C1: round trip - for every valid token (episode 0..9, act 1..3), parsing
\* the text that to_value / Serialize produced succeeds and yields that token.
C1_RoundTrip ==
    (pc = "done" /\ token # None /\ ValidToken(token[1]))
        => result = Ok(token[1])

\* C2: a well-formed 'e<d1>a<d2>' is accepted exactly when d2 is 1, 2 or 3,
\* and rejected when d2 is 0 or at least 4.
C2_ActRange ==
    (pc = "done" /\ token = None /\ WellFormed(text))
        => (result.ok <=> DigitValue(text[4]) \in {1, 2, 3})

\* C3: when parse accepts 'e<d1>a<d2>', the token's episode is the numeric
\* value of d1 and its act the numeric value of d2.
C3_DigitValues ==
    (pc = "done" /\ token = None /\ result.ok)
        => /\ result.value.episode = DigitValue(text[2])
           /\ result.value.act = DigitValue(text[4])

\* C6: every text whose length is not 4 is rejected, with the message
\* "Invalid length" (never the format message, never success).
C6_InvalidLength ==
    (pc = "done" /\ Len(text) # TokenLen) => result = Err(InvalidLength)

\* C6 witness: "e5a-1" (five characters) was rejected for its length
C6_Witness ==
    pc = "done" /\ text = Text_e5a_1 /\ result = Err(InvalidLength)

\* C7: every 4-character text whose first character is not 'e' or whose
\* third is not 'a' is rejected with the format message, which carries the
\* offending text, whatever the characters at positions 1 and 3 are.
C7_InvalidMarkers ==
    (pc = "done" /\ Len(text) = TokenLen
        /\ (text[1] # Char_e \/ text[3] # Char_a))
        => result = Err(InvalidFormat(text))

\* C7 witness: "sdfa" was rejected with the format message carrying "sdfa"
C7_Witness ==
    pc = "done" /\ text = Text_sdfa /\ result = Err(InvalidFormat(Text_sdfa))

\* C8: a text 'e?a?' is rejected with the format message unless both the
\* episode and the act character are decimal digits '0'..'9'.
C8_DecimalDigitsOnly ==
    (pc = "done" /\ Len(text) = TokenLen
        /\ text[1] = Char_e /\ text[3] = Char_a
        /\ ~(text[2] \in AsciiDigits /\ text[4] \in AsciiDigits))
        => result = Err(InvalidFormat(text))

---------------------------------------------------------------------------
(* Properties of the envelope, checked under SpecEnvelope *)

\* the body is a JSON object carrying a numeric `status`
HasStatus(b) == b[1] = "obj" /\ b[2].status[1] = "num"

\* `data` is present and decodes as the payload type T
DataWellFormed(T, b) == b[1] = "obj" /\ T_deserialize(T, b[2].data).ok

\* `errors` is present and is an array of complete error objects
ErrorsWellFormed(b) ==
    /\ b[1] = "obj"
    /\ b[2].errors[1] = "arr"
    /\ \A i \in 1..Len(b[2].errors[2]) :
           b[2].errors[2][i] \in {NotFound, RateLimited}

\* the ApiError an error object stands for
ErrorOf(item) ==
    [message |-> item[2].message[2], code |-> item[2].code[2],
     details |-> item[2].details[2]]

\* the errors of the body, in their original order
ErrorsOf(b) == [i \in 1..Len(b[2].errors[2]) |-> ErrorOf(b[2].errors[2][i])]

Body404 == Obj([status |-> Num(404), data |-> Absent, errors |-> Arr(<<NotFound>>)])

\* C4: the variant is selected from field presence - `status` with a
\* well-formed `data` and no `errors` decodes to Success{status, data};
\* `status` with a well-formed `errors` and no `data` decodes to
\* Failure{status, errors}, the errors in their original order; a body with
\* neither field, or with both malformed, fails to decode.
C4_VariantFromPresence ==
    pc = "decoded" =>
        /\ (HasStatus(body) /\ DataWellFormed(payload, body)
                /\ body[2].errors = Absent)
            => envelope = Ok(Success(body[2].status[2],
                                     T_deserialize(payload, body[2].data).value))
        /\ (HasStatus(body) /\ ErrorsWellFormed(body) /\ body[2].data = Absent)
            => envelope = Ok(Failure(body[2].status[2], ErrorsOf(body)))
        /\ (body[1] = "obj" /\ body[2].data = Absent /\ body[2].errors = Absent)
            => ~envelope.ok
        /\ (body[1] = "obj" /\ ~DataWellFormed(payload, body)
                /\ ~ErrorsWellFormed(body))
            => ~envelope.ok

\* C4 witness: status 404 with the one error "Not found" decoded to Failure
C4_Witness ==
    /\ pc = "decoded"
    /\ body = Body404
    /\ envelope = Ok(Failure(404, <<[message |-> "Not found", code |-> 0,
                                     details |-> "null"]>>))

\* C5 (as claimed): Success is yielded only when `errors` is absent - a
\* decoded Success never discards a present `errors` field.
C5_SuccessOnlyWithoutErrors ==
    (pc = "decoded" /\ envelope.ok /\ envelope.value.variant = "Success")
        => body[2].errors = Absent

\* C5 (amended): Success is yielded exactly when `status` and `data` are
\* present and well-formed, whether or not `errors` is present; Failure is
\* yielded only when `data` is absent or malformed.
C5_SuccessIgnoresErrors ==
    (pc = "decoded" /\ body[1] = "obj") =>
        /\ (envelope.ok /\ envelope.value.variant = "Success")
            <=> (HasStatus(body) /\ DataWellFormed(payload, body))
        /\ (envelope.ok /\ envelope.value.variant = "Failure")
            => ~DataWellFormed(payload, body)

\* C5 witness: a body with a well-formed `data` and a well-formed, non-empty
\* `errors` array decoded to Success
C5_Witness ==
    /\ pc = "decoded"
    /\ HasStatus(body)
    /\ DataWellFormed(payload, body)
    /\ ErrorsWellFormed(body)
    /\ Len(body[2].errors[2]) > 0
    /\ envelope.ok
    /\ envelope.value.variant = "Success"

---------------------------------------------------------------------------
(* Properties of a request, checked under SpecRequest *)

\* the body of the response decodes as an envelope of the payload type
BodyDecodes(T, b) == b[1] # "garbage" /\ ApiResponse_deserialize(T, b).ok

\* C9 (as claimed): whenever the transport fails, returns a non-2xx HTTP
\* status, or returns a body that does not decode as an envelope, request
\* returns Err, never Ok(Failure{..}) or Ok(Success{..}).
C9_ErrUnlessSuccessStatus ==
    (pc = "returned"
        /\ (\/ ~http.ok
            \/ http.value.status \notin 200..299
            \/ ~BodyDecodes(payload, http.value.body)))
        => ~response.ok

\* C9 (amended): request returns Err exactly when the transport fails or
\* the body does not decode as an envelope; the HTTP status is not
\* inspected, so a response of any status whose body decodes is returned as
\* Ok with the decoded envelope.
C9_ErrIffTransportOrDecode ==
    pc = "returned" =>
        /\ ~http.ok => ~response.ok
        /\ (http.ok /\ ~BodyDecodes(payload, http.value.body)) => ~response.ok
        /\ (http.ok /\ BodyDecodes(payload, http.value.body))
            => response = ApiResponse_deserialize(payload, http.value.body)

\* C9 witness: a 404 response carrying the "Not found" envelope was returned
\* to the caller as Ok(Failure{404, ..})
C9_Witness ==
    /\ pc = "returned"
    /\ http = Ok([status |-> 404, body |-> Body404])
    /\ response.ok
    /\ response.value.variant = "Failure"
    /\ response.value.status = 404

\* C10: two MMRData requests that differ only in the season filter (None
\* versus Some(token), or two different tokens) are sent to different URLs.
C10_FilterInPath ==
    (pc \in {"get", "returned"} /\ api_type.variant = "MMRData")
        => \A f \in Filters \ {api_type.filter} :
               request_url(client, [api_type EXCEPT !.filter = f]) # url

=============================================================================
